---- MODULE Spec2Model ----
(***************************************************************************)
(* Model of src/dropout_predictor.py: a Streamlit form (ten widgets), the   *)
(* scoring function calculate_dropout_risk, and the button handler that     *)
(* classifies the score, lists the risk factors and selects a               *)
(* recommendation.                                                          *)
(*                                                                          *)
(* Streamlit re-runs the whole script on every widget interaction.          *)
(* st.button returns True only in the run its click triggers, so the        *)
(* results panel is rebuilt by a click and is empty after any other         *)
(* interaction.  One action of the model is one such run.                   *)
(*                                                                          *)
(* Arithmetic.  risk_score is a Python float (IEEE-754 binary64).  Every    *)
(* float of the program is a multiple of 2^-57 (the ulp of the smallest     *)
(* weight, 0.04).  A float x is held EXACTLY as the record [c, e] with      *)
(*        100 * x  =  c + e * 2^-57        (c, e integers, |e| < 2^56)      *)
(* where c is the sum of the weights in hundredths and e is the rounding    *)
(* error accumulated so far.  dropout_percentage = dropout_prob * 100 is    *)
(* held as [c, e] with value c + e * 2^-57.  Additions and the              *)
(* multiplication round to nearest, ties to even, on the binary64 grid of   *)
(* the result's binade.                                                     *)
(***************************************************************************)
EXTENDS Integers, Sequences, FiniteSets, TLC

VARIABLES
    beneficiary_id,       \* st.text_input           (line 51)
    age,                  \* st.number_input 18..80  (line 52)
    region,               \* st.selectbox            (line 54)
    months_since_claim,   \* st.number_input 0..120  (line 58)
    total_claims,         \* st.number_input 0..50   (line 60)
    claim_denial_rate,    \* st.slider 0..100        (line 61)
    clinic_visits,        \* st.number_input 0..50   (line 65)
    distance_to_clinic,   \* st.number_input 0..200  (line 66)
    avg_monthly_balance,  \* st.number_input 0..100000 (line 70)
    premium_amount,       \* st.number_input 100..10000 (line 71)
    calls,                \* calls of calculate_dropout_risk made by the current run
    dropout_prob,         \* line 146 (NoFloat when the run did not evaluate)
    dropout_percentage,   \* line 151
    outcome,              \* lines 155/160
    risk_level,           \* lines 156/161
    risk_factors,         \* lines 205-220, the strings in the order appended
    no_factors_marker,    \* line 226 shown
    recommendation,       \* lines 230-252, the block shown
    prompt                \* lines 255-256 shown

form == <<beneficiary_id, age, region, months_since_claim, total_claims,
          claim_denial_rate, clinic_visits, distance_to_clinic,
          avg_monthly_balance, premium_amount>>
panel == <<calls, dropout_prob, dropout_percentage, outcome, risk_level,
           risk_factors, no_factors_marker, recommendation, prompt>>
vars == <<form, panel>>

----------------------------------------------------------------------------
(* The values the widgets are driven with: one in every branch of every    *)
(* rule of the scorer and of the explainer, taken next to the thresholds   *)
(* (5|6 and 11|12 months, 0 and 5|6 claims, 24|25 and 55|56 years, 15|16   *)
(* percent, 1|2 visits, 50|51 km, 1999|2000 balance, a premium on either   *)
(* side of 0.3 x balance).                                                  *)

Regions == {"Lagos", "Enugu", "Kaduna", "Kano", "Abuja", "Jos", "Ibadan", "Port Harcourt"}
IdVals == {"", "BEN001234"}
AgeVals == {24, 25, 55, 56, 66}
MonthsVals == {2, 3, 5, 6, 11, 12}
ClaimsVals == {0, 5, 6, 11}
DenialVals == {15, 16, 26}
VisitsVals == {1, 2, 16}
DistanceVals == {50, 51}
BalanceVals == {999, 1999, 2000}
PremiumVals == {300, 601}

----------------------------------------------------------------------------
(* binary64 arithmetic on [c, e] records                                    *)

NoFloat == [c |-> -1, e |-> 0]

\* The float a Python literal h/100 denotes: e = 100 * float(h/100) * 2^57 - h * 2^57.
Lit(h) ==
    [c |-> h,
     e |-> CASE h = 0 -> 0 [] h = 4 -> 12 [] h = 5 -> 40 [] h = 6 -> -32
             [] h = 8 -> 24 [] h = 10 -> 80 [] h = 12 -> -64 [] h = 14 -> 192
             [] h = 15 -> -80 [] h = 16 -> 48 [] h = 18 -> -96 [] h = 20 -> 160
             [] h = 30 -> -160 [] h = 45 -> 160 [] h = 50 -> 0 [] h = 70 -> -640
             [] h = 95 -> -640]

\* a >= b
FGe(a, b) == a.c > b.c \/ (a.c = b.c /\ a.e >= b.e)

\* c + e * 2^-57 >= k4 / 4
GeQuarter(v, k4) == 4 * v.c > k4 \/ (4 * v.c = k4 /\ v.e >= 0)

\* Round to nearest, ties to even: e moved to the grid of spacing u, where r is
\* the position of the value within a block of 2u grid units and k is the weight
\* of one unit in e.
RoundHalfEven(e, r, u, k) ==
    LET lo == r % u
    IN  IF 2 * lo < u THEN e - k * lo
        ELSE IF 2 * lo > u THEN e + k * (u - lo)
        ELSE IF r < u THEN e - k * lo
        ELSE e + k * (u - lo)

\* ulp of x in units of 2^-57, where 100 x = v : x in [1,2) -> 2^-52, [0.5,1) -> 2^-53, ...
UlpOfSum(v) ==
    IF GeQuarter(v, 400) THEN 32
    ELSE IF GeQuarter(v, 200) THEN 16
    ELSE IF GeQuarter(v, 100) THEN 8
    ELSE IF GeQuarter(v, 50) THEN 4
    ELSE IF GeQuarter(v, 25) THEN 2
    ELSE 1

\* a + b in binary64.  N = x * 2^57 satisfies 100 N = c * 2^57 + e and
\* 2^57 mod 6400 = 3072, so N mod 64 = ((3072 c + e) mod 6400) / 100.
FAdd(a, b) ==
    LET c == a.c + b.c
        e == a.e + b.e
        u == UlpOfSum([c |-> c, e |-> e])
        r == (((3072 * c + e) % 6400) \div 100) % (2 * u)
    IN  [c |-> c, e |-> RoundHalfEven(e, r, u, 100)]

\* ulp of y = c + e * 2^-57 in units of 2^-57: y in [64,128) -> 2^-46, [32,64) -> 2^-47, ...
UlpOfProduct(v) ==
    IF GeQuarter(v, 256) THEN 2048
    ELSE IF GeQuarter(v, 128) THEN 1024
    ELSE IF GeQuarter(v, 64) THEN 512
    ELSE IF GeQuarter(v, 32) THEN 256
    ELSE IF GeQuarter(v, 16) THEN 128
    ELSE 64

\* x * 100 in binary64: the exact product is c + e * 2^-57, then rounded.
FMul100(x) ==
    LET g == UlpOfProduct(x)
    IN  [c |-> x.c, e |-> RoundHalfEven(x.e, x.e % (2 * g), g, 1)]

\* Python min(a, b): b when b < a, else a.
FMin(a, b) == IF FGe(b, a) THEN a ELSE b

----------------------------------------------------------------------------
(* calculate_dropout_risk, rule by rule                                     *)

\* mutant: the weights of the two upper tiers exchanged
MonthsRule_Swapped(risk_score, months) ==
    IF months >= 12 THEN FAdd(risk_score, Lit(30))
    ELSE IF months >= 6 THEN FAdd(risk_score, Lit(45))
    ELSE IF months >= 3 THEN FAdd(risk_score, Lit(15))
    ELSE risk_score

MonthsRule(risk_score, months) ==
    IF months >= 12 THEN FAdd(risk_score, Lit(45))
    ELSE IF months >= 6 THEN FAdd(risk_score, Lit(30))
    ELSE IF months >= 3 THEN FAdd(risk_score, Lit(15))
    ELSE risk_score

ClaimsRule(risk_score, claims) ==
    IF claims = 0 THEN FAdd(risk_score, Lit(15))
    ELSE IF claims > 10 THEN FAdd(risk_score, Lit(20))
    ELSE IF claims > 5 THEN FAdd(risk_score, Lit(10))
    ELSE risk_score

AgeRule(risk_score, a) ==
    IF a < 25 THEN FAdd(risk_score, Lit(12))
    ELSE IF a > 65 THEN FAdd(risk_score, Lit(15))
    ELSE IF a > 55 THEN FAdd(risk_score, Lit(8))
    ELSE risk_score

\* mutant: the last key of the table lost and the default 0
regional_risk_MissingKey(r) ==
    CASE r = "Lagos" -> 18 [] r = "Enugu" -> 16 [] r = "Kaduna" -> 14
      [] r = "Kano" -> 12 [] r = "Abuja" -> 10 [] r = "Jos" -> 8
      [] r = "Ibadan" -> 6 [] OTHER -> 0

\* regional_risk.get(region, 0.10), in hundredths
regional_risk(r) ==
    CASE r = "Lagos" -> 18 [] r = "Enugu" -> 16 [] r = "Kaduna" -> 14
      [] r = "Kano" -> 12 [] r = "Abuja" -> 10 [] r = "Jos" -> 8
      [] r = "Ibadan" -> 6 [] r = "Port Harcourt" -> 4 [] OTHER -> 10

RegionRule(risk_score, r) == FAdd(risk_score, Lit(regional_risk(r)))

DenialRule(risk_score, denial) ==
    IF denial > 25 THEN FAdd(risk_score, Lit(12))
    ELSE IF denial > 15 THEN FAdd(risk_score, Lit(8))
    ELSE risk_score

VisitsRule(risk_score, visits) ==
    IF visits < 2 THEN FAdd(risk_score, Lit(10))
    ELSE IF visits > 15 THEN FAdd(risk_score, Lit(5))
    ELSE risk_score

DistanceRule(risk_score, distance) ==
    IF distance > 50 THEN FAdd(risk_score, Lit(8)) ELSE risk_score

\* The source tests "< 2000" first, so its "elif < 1000" branch is never taken.
BalanceRule(risk_score, balance) ==
    IF balance < 2000 THEN FAdd(risk_score, Lit(10))
    ELSE IF balance < 1000 THEN FAdd(risk_score, Lit(15))
    ELSE risk_score

\* premium_amount > avg_monthly_balance * 0.3.  Both operands are integers of the
\* widgets' ranges; over those ranges the float product decides the comparison
\* exactly as 10 * premium > 3 * balance does.
PremiumRule(risk_score, premium, balance) ==
    IF 10 * premium > 3 * balance THEN FAdd(risk_score, Lit(8)) ELSE risk_score

\* risk_score after the first seven rules (lines 79-124)
ScoreBeforeBalance(months, claims, a, r, denial, visits, distance) ==
    LET s1 == MonthsRule(Lit(0), months)
        s2 == ClaimsRule(s1, claims)
        s3 == AgeRule(s2, a)
        s4 == RegionRule(s3, r)
        s5 == DenialRule(s4, denial)
        s6 == VisitsRule(s5, visits)
    IN  DistanceRule(s6, distance)

\* risk_score after all nine rules, before line 135
RawScore(months, claims, a, r, denial, visits, distance, balance, premium) ==
    LET s7 == ScoreBeforeBalance(months, claims, a, r, denial, visits, distance)
        s8 == BalanceRule(s7, balance)
    IN  PremiumRule(s8, premium, balance)

\* mutant: the cap left out
Cap_NoCap(risk_score) == risk_score

\* mutant: max written for min
Cap_Max(risk_score) == IF FGe(risk_score, Lit(95)) THEN risk_score ELSE Lit(95)

\* dropout_probability = min(risk_score, 0.95)
Cap(risk_score) == FMin(risk_score, Lit(95))

calculate_dropout_risk(months, claims, a, r, denial, visits, distance, balance, premium) ==
    Cap(RawScore(months, claims, a, r, denial, visits, distance, balance, premium))

----------------------------------------------------------------------------
(* the button handler                                                       *)

\* mutant: the guard left out
HasId_Always(id) == TRUE

\* "if beneficiary_id:" - a non-empty string is truthy
HasId(id) == id # ""

\* mutant: > written for >=
Outcome_Strict(pct) ==
    IF GeQuarter(pct, 200) /\ ~(pct.c = 50 /\ pct.e = 0)
    THEN "WILL DROPOUT" ELSE "WILL NOT DROPOUT"

Outcome(pct) ==
    IF GeQuarter(pct, 200) THEN "WILL DROPOUT" ELSE "WILL NOT DROPOUT"

RiskLevel(pct) ==
    IF GeQuarter(pct, 200)
    THEN (IF GeQuarter(pct, 280) THEN "HIGH RISK" ELSE "MEDIUM RISK")
    ELSE "LOW RISK"

\* mutant: the explainer using the scorer's upper denial threshold
RiskFactors_ScorerThreshold(months, claims, a, r, denial, balance) ==
    (IF months >= 6 THEN <<"months without claims">> ELSE <<>>)
    \o (IF claims = 0 THEN <<"No claims history">>
        ELSE IF claims > 5 THEN <<"High claim frequency">>
        ELSE <<>>)
    \o (IF a < 25 \/ a > 55 THEN <<"Age risk factor">> ELSE <<>>)
    \o (IF r \in {"Lagos", "Enugu", "Kaduna"} THEN <<"High-risk region">> ELSE <<>>)
    \o (IF denial > 25 THEN <<"High denial rate">> ELSE <<>>)
    \o (IF balance < 2000 THEN <<"Low balance">> ELSE <<>>)

When(cond, s) == IF cond THEN <<s>> ELSE <<>>

RiskFactors(months, claims, a, r, denial, balance) ==
    When(months >= 6, "months without claims")
    \o (IF claims = 0 THEN <<"No claims history">>
        ELSE IF claims > 5 THEN <<"High claim frequency">>
        ELSE <<>>)
    \o When(a < 25 \/ a > 55, "Age risk factor")
    \o When(r \in {"Lagos", "Enugu", "Kaduna"}, "High-risk region")
    \o When(denial > 15, "High denial rate")
    \o When(balance < 2000, "Low balance")

\* mutant: the looser threshold tested first
Recommendation_LooseFirst(pct) ==
    IF GeQuarter(pct, 200) THEN "PROACTIVE INTERVENTION"
    ELSE IF GeQuarter(pct, 280) THEN "URGENT ACTION REQUIRED"
    ELSE "STANDARD MONITORING"

Recommendation(pct) ==
    IF GeQuarter(pct, 280) THEN "URGENT ACTION REQUIRED"
    ELSE IF GeQuarter(pct, 200) THEN "PROACTIVE INTERVENTION"
    ELSE "STANDARD MONITORING"

\* what a run that does not evaluate leaves in the results panel
NothingEvaluated ==
    /\ calls' = 0
    /\ dropout_prob' = NoFloat
    /\ dropout_percentage' = NoFloat
    /\ outcome' = "none"
    /\ risk_level' = "none"
    /\ risk_factors' = <<>>
    /\ no_factors_marker' = FALSE
    /\ recommendation' = "none"

\* a run in which st.button returns False: lines 143-256 are skipped
Rerun == NothingEvaluated /\ prompt' = FALSE

Evaluate ==
    LET prob == calculate_dropout_risk(months_since_claim, total_claims, age, region,
                    claim_denial_rate, clinic_visits, distance_to_clinic,
                    avg_monthly_balance, premium_amount)
        pct == FMul100(prob)
        factors == RiskFactors(months_since_claim, total_claims, age, region,
                               claim_denial_rate, avg_monthly_balance)
    IN  /\ calls' = 1
        /\ dropout_prob' = prob
        /\ dropout_percentage' = pct
        /\ outcome' = Outcome(pct)
        /\ risk_level' = RiskLevel(pct)
        /\ risk_factors' = factors
        /\ no_factors_marker' = (factors = <<>>)
        /\ recommendation' = Recommendation(pct)
        /\ prompt' = FALSE

\* a click on "Calculate Dropout Risk": the run of lines 142-256
ButtonPress ==
    /\ IF HasId(beneficiary_id)
       THEN Evaluate
       ELSE NothingEvaluated /\ prompt' = TRUE
    /\ UNCHANGED form

----------------------------------------------------------------------------
(* the widgets: a change of value re-runs the script with the button False  *)

SetBeneficiaryId ==
    /\ \E v \in IdVals : v # beneficiary_id /\ beneficiary_id' = v
    /\ Rerun
    /\ UNCHANGED <<age, region, months_since_claim, total_claims, claim_denial_rate,
                   clinic_visits, distance_to_clinic, avg_monthly_balance, premium_amount>>

SetAge ==
    /\ \E v \in AgeVals : v # age /\ age' = v
    /\ Rerun
    /\ UNCHANGED <<beneficiary_id, region, months_since_claim, total_claims,
                   claim_denial_rate, clinic_visits, distance_to_clinic,
                   avg_monthly_balance, premium_amount>>

SetRegion ==
    /\ \E v \in Regions : v # region /\ region' = v
    /\ Rerun
    /\ UNCHANGED <<beneficiary_id, age, months_since_claim, total_claims,
                   claim_denial_rate, clinic_visits, distance_to_clinic,
                   avg_monthly_balance, premium_amount>>

SetMonthsSinceClaim ==
    /\ \E v \in MonthsVals : v # months_since_claim /\ months_since_claim' = v
    /\ Rerun
    /\ UNCHANGED <<beneficiary_id, age, region, total_claims, claim_denial_rate,
                   clinic_visits, distance_to_clinic, avg_monthly_balance, premium_amount>>

SetTotalClaims ==
    /\ \E v \in ClaimsVals : v # total_claims /\ total_claims' = v
    /\ Rerun
    /\ UNCHANGED <<beneficiary_id, age, region, months_since_claim, claim_denial_rate,
                   clinic_visits, distance_to_clinic, avg_monthly_balance, premium_amount>>

SetClaimDenialRate ==
    /\ \E v \in DenialVals : v # claim_denial_rate /\ claim_denial_rate' = v
    /\ Rerun
    /\ UNCHANGED <<beneficiary_id, age, region, months_since_claim, total_claims,
                   clinic_visits, distance_to_clinic, avg_monthly_balance, premium_amount>>

SetClinicVisits ==
    /\ \E v \in VisitsVals : v # clinic_visits /\ clinic_visits' = v
    /\ Rerun
    /\ UNCHANGED <<beneficiary_id, age, region, months_since_claim, total_claims,
                   claim_denial_rate, distance_to_clinic, avg_monthly_balance, premium_amount>>

SetDistanceToClinic ==
    /\ \E v \in DistanceVals : v # distance_to_clinic /\ distance_to_clinic' = v
    /\ Rerun
    /\ UNCHANGED <<beneficiary_id, age, region, months_since_claim, total_claims,
                   claim_denial_rate, clinic_visits, avg_monthly_balance, premium_amount>>

SetAvgMonthlyBalance ==
    /\ \E v \in BalanceVals : v # avg_monthly_balance /\ avg_monthly_balance' = v
    /\ Rerun
    /\ UNCHANGED <<beneficiary_id, age, region, months_since_claim, total_claims,
                   claim_denial_rate, clinic_visits, distance_to_clinic, premium_amount>>

SetPremiumAmount ==
    /\ \E v \in PremiumVals : v # premium_amount /\ premium_amount' = v
    /\ Rerun
    /\ UNCHANGED <<beneficiary_id, age, region, months_since_claim, total_claims,
                   claim_denial_rate, clinic_visits, distance_to_clinic, avg_monthly_balance>>

----------------------------------------------------------------------------

\* The first run of a session: no identifier typed, the button not clicked.
Init ==
    /\ beneficiary_id = ""
    /\ age \in AgeVals
    /\ region \in Regions
    /\ months_since_claim \in MonthsVals
    /\ total_claims \in ClaimsVals
    /\ claim_denial_rate \in DenialVals
    /\ clinic_visits \in VisitsVals
    /\ distance_to_clinic \in DistanceVals
    /\ avg_monthly_balance \in BalanceVals
    /\ premium_amount \in PremiumVals
    /\ calls = 0
    /\ dropout_prob = NoFloat
    /\ dropout_percentage = NoFloat
    /\ outcome = "none"
    /\ risk_level = "none"
    /\ risk_factors = <<>>
    /\ no_factors_marker = FALSE
    /\ recommendation = "none"
    /\ prompt = FALSE

Next ==
    \/ ButtonPress
    \/ SetBeneficiaryId
    \/ SetAge
    \/ SetRegion
    \/ SetMonthsSinceClaim
    \/ SetTotalClaims
    \/ SetClaimDenialRate
    \/ SetClinicVisits
    \/ SetDistanceToClinic
    \/ SetAvgMonthlyBalance
    \/ SetPremiumAmount

Spec == Init /\ [][Next]_vars

----------------------------------------------------------------------------
(* Properties                                                               *)

\* the results panel holds an evaluation
Evaluated == calls = 1

\* risk_score after the first seven rules, for the profile in the form
S7 == ScoreBeforeBalance(months_since_claim, total_claims, age, region,
                         claim_denial_rate, clinic_visits, distance_to_clinic)

\* risk_score before the cap, for the profile in the form
Raw == RawScore(months_since_claim, total_claims, age, region, claim_denial_rate,
                clinic_visits, distance_to_clinic, avg_monthly_balance, premium_amount)

\* the score of the profile in the form with monthsSinceLastClaim replaced by m
WithMonths(m) ==
    calculate_dropout_risk(m, total_claims, age, region, claim_denial_rate,
        clinic_visits, distance_to_clinic, avg_monthly_balance, premium_amount)

\* C1: every evaluation returns a probability p with 0 <= p <= 0.95.
C1_ProbabilityInRange ==
    Evaluated => FGe(dropout_prob, Lit(0)) /\ FGe(Lit(95), dropout_prob)

\* an evaluation whose raw sum is above 0.95, so that the cap decides the result
C1_Witness == Evaluated /\ ~FGe(Lit(95), Raw) /\ dropout_prob = Lit(95)

\* C2: the balance rule adds 0.15 when balance < 1000, 0.10 when
\* 1000 <= balance < 2000 and nothing when balance >= 2000.
C2_BalancePrecedence ==
    Evaluated =>
        BalanceRule(S7, avg_monthly_balance) =
            (IF avg_monthly_balance < 1000 THEN FAdd(S7, Lit(15))
             ELSE IF avg_monthly_balance < 2000 THEN FAdd(S7, Lit(10))
             ELSE S7)

\* C3: the outcome is WILL DROPOUT iff p >= 0.50; the tier is HIGH iff p >= 0.70,
\* MEDIUM iff 0.50 <= p < 0.70, LOW iff p < 0.50; exactly one tier is given.
C3_ClassifierIsThreshold ==
    Evaluated =>
        /\ outcome \in {"WILL DROPOUT", "WILL NOT DROPOUT"}
        /\ risk_level \in {"HIGH RISK", "MEDIUM RISK", "LOW RISK"}
        /\ (outcome = "WILL DROPOUT") <=> FGe(dropout_prob, Lit(50))
        /\ (risk_level = "HIGH RISK") <=> FGe(dropout_prob, Lit(70))
        /\ (risk_level = "MEDIUM RISK") <=>
               (FGe(dropout_prob, Lit(50)) /\ ~FGe(dropout_prob, Lit(70)))
        /\ (risk_level = "LOW RISK") <=> ~FGe(dropout_prob, Lit(50))

\* an evaluation whose weights add up to 0.70 on paper, whose float sum is just
\* below the float 0.70, and which is therefore MEDIUM
C3_Witness ==
    Evaluated /\ dropout_prob.c = 70 /\ ~FGe(dropout_prob, Lit(70))
        /\ risk_level = "MEDIUM RISK"

\* C4: a profile on the maximal branch of every rule has a raw sum above 0.95
\* and is scored exactly 0.95.
MaximalProfile ==
    /\ months_since_claim >= 12
    /\ total_claims > 10
    /\ age > 65
    /\ region = "Lagos"
    /\ claim_denial_rate > 25
    /\ clinic_visits < 2
    /\ distance_to_clinic > 50
    /\ avg_monthly_balance < 1000
    /\ 10 * premium_amount > 3 * avg_monthly_balance

C4_MaximalProfileIsCapped ==
    Evaluated /\ MaximalProfile => ~FGe(Lit(95), Raw) /\ dropout_prob = Lit(95)

C4_Witness == Evaluated /\ MaximalProfile /\ premium_amount = 300

\* C5: with everything else fixed, a larger monthsSinceLastClaim never gives a
\* smaller probability.
C5_MonotoneInMonths ==
    Evaluated =>
        \A m \in MonthsVals :
            m >= months_since_claim => FGe(WithMonths(m), dropout_prob)

\* an evaluation at 11 months for which 12 months scores strictly more
C5_Witness ==
    Evaluated /\ months_since_claim = 11 /\ ~FGe(dropout_prob, WithMonths(12))

\* C6: a click with an empty identifier evaluates nothing and shows only the
\* prompt; a click with an identifier produces exactly one complete evaluation.
\* (A run that leaves the form as it is is a click.)
ClickStep == form' = form /\ panel' # panel

C6_GuardBlocksEvaluation ==
    [][ClickStep =>
          IF beneficiary_id = ""
          THEN /\ prompt'
               /\ calls' = 0
               /\ dropout_prob' = NoFloat
               /\ dropout_percentage' = NoFloat
               /\ outcome' = "none"
               /\ risk_level' = "none"
               /\ risk_factors' = <<>>
               /\ ~no_factors_marker'
               /\ recommendation' = "none"
          ELSE /\ ~prompt'
               /\ calls' = 1
               /\ dropout_prob' # NoFloat
               /\ dropout_percentage' # NoFloat
               /\ outcome' # "none"
               /\ risk_level' # "none"
               /\ (risk_factors' # <<>>) # no_factors_marker'
               /\ recommendation' # "none"]_vars

\* the prompt is on the screen after a click with no identifier
C6_Witness == prompt /\ beneficiary_id = "" /\ calls = 0

\* C7 (as claimed): when every threshold branch misses, the probability is 0.
AllBranchesMiss ==
    /\ months_since_claim < 3
    /\ total_claims \in 1..5
    /\ age \in 25..55
    /\ claim_denial_rate <= 15
    /\ clinic_visits \in 2..15
    /\ distance_to_clinic <= 50
    /\ avg_monthly_balance >= 2000
    /\ 10 * premium_amount <= 3 * avg_monthly_balance

C7_ZeroWhenAllMiss == Evaluated /\ AllBranchesMiss => dropout_prob = Lit(0)

\* C7 (amended): the region rule always contributes, so the probability is never
\* below 0.04, and when every threshold branch misses it is the region's weight.
C7_MinimumIsRegionWeight ==
    Evaluated =>
        /\ FGe(dropout_prob, Lit(4))
        /\ AllBranchesMiss => dropout_prob = Lit(regional_risk(region))

\* the minimum: every threshold branch misses in Port Harcourt
C7_Witness ==
    Evaluated /\ AllBranchesMiss /\ region = "Port Harcourt" /\ dropout_prob = Lit(4)

\* C8: the risk-factor list is exactly the triggered factors, each once, in the
\* fixed order; the "no major risk factors" marker is shown iff none triggers.
FactorOrder ==
    <<"months without claims", "No claims history", "High claim frequency",
      "Age risk factor", "High-risk region", "High denial rate", "Low balance">>

Triggered(f) ==
    CASE f = "months without claims" -> months_since_claim >= 6
      [] f = "No claims history" -> total_claims = 0
      [] f = "High claim frequency" -> total_claims # 0 /\ total_claims > 5
      [] f = "Age risk factor" -> age < 25 \/ age > 55
      [] f = "High-risk region" -> region \in {"Lagos", "Enugu", "Kaduna"}
      [] f = "High denial rate" -> claim_denial_rate > 15
      [] f = "Low balance" -> avg_monthly_balance < 2000

C8_FactorsAreTheTriggered ==
    Evaluated =>
        /\ risk_factors = SelectSeq(FactorOrder, Triggered)
        /\ no_factors_marker <=> (\A i \in 1..Len(FactorOrder) : ~Triggered(FactorOrder[i]))

\* an evaluation in which all six factors trigger
C8_Witness == Evaluated /\ Len(risk_factors) = 6

\* C9: the recommendation shown is the one of the risk tier: urgent iff HIGH
\* (percentage >= 70), proactive iff MEDIUM, standard iff LOW; exactly one is shown.
C9_RecommendationMatchesTier ==
    Evaluated =>
        /\ recommendation \in {"URGENT ACTION REQUIRED", "PROACTIVE INTERVENTION",
                               "STANDARD MONITORING"}
        /\ (recommendation = "URGENT ACTION REQUIRED") <=> (risk_level = "HIGH RISK")
        /\ (recommendation = "PROACTIVE INTERVENTION") <=> (risk_level = "MEDIUM RISK")
        /\ (recommendation = "STANDARD MONITORING") <=> (risk_level = "LOW RISK")
        /\ (recommendation = "URGENT ACTION REQUIRED") <=> GeQuarter(dropout_percentage, 280)
        /\ (recommendation = "STANDARD MONITORING") <=> ~GeQuarter(dropout_percentage, 200)

\* an evaluation in the middle tier
C9_Witness ==
    Evaluated /\ risk_level = "MEDIUM RISK" /\ recommendation = "PROACTIVE INTERVENTION"

\* C10: whenever the outcome is WILL DROPOUT the risk-factor list is not empty
\* (the "no major risk factors" marker goes only with WILL NOT DROPOUT).
C10_DropoutHasFactors ==
    Evaluated /\ outcome = "WILL DROPOUT" => risk_factors # <<>> /\ ~no_factors_marker

====
